---- MODULE Spec2Model ----
(***************************************************************************)
(* A model of the SEO sitemap analyzer (src/app.py): sitemap resolution,   *)
(* the fetch-and-extract worker pool with retry, metadata extraction,      *)
(* categorization by URL path, report assembly and the summary counters.   *)
(*                                                                         *)
(* Python strings are modelled as sequences of one-character strings, so   *)
(* that strip(), substring search, len() and f-string formatting are       *)
(* computed rather than assumed.  A code point outside ASCII is one        *)
(* element named after it ("U+26A0").                                      *)
(***************************************************************************)
EXTENDS Integers, Sequences, FiniteSets, TLC

VARIABLES
    pc,             \* position of the request handler / of the function under study
    web,            \* the sitemap documents the network serves, by node
    all_urls,       \* analyze_sitemap: the resolved URL list
    futures,        \* analyze_sitemap: one task per submitted URL (locals of process_url)
    metadata_list,  \* analyze_sitemap: the collected records
    categorized,    \* result of categorize_data
    workbook,       \* create_excel_report: the sheets, in creation order
    issues,         \* analyze_sitemap: the issue counters
    stats,          \* analyze_sitemap: the 'stats' object of the response
    soup,           \* extract_metadata: the parsed document
    extracted       \* extract_metadata: the returned dict

vars == <<pc, web, all_urls, futures, metadata_list, categorized, workbook,
          issues, stats, soup, extracted>>

----------------------------------------------------------------------------
(* Python str primitives over character sequences *)

Whitespace == {" ", "\n", "\t", "\r"}

RECURSIVE LStrip(_)
LStrip(s) ==
    IF s # <<>> /\ Head(s) \in Whitespace THEN LStrip(Tail(s)) ELSE s

RECURSIVE RStrip(_)
RStrip(s) ==
    IF s # <<>> /\ s[Len(s)] \in Whitespace
    THEN RStrip(SubSeq(s, 1, Len(s) - 1))
    ELSE s

\* str.strip()
Strip(s) == RStrip(LStrip(s))

\* `p in s` for two str values
Contains(s, p) ==
    \E i \in 1..(Len(s) - Len(p) + 1) : SubSeq(s, i, i + Len(p) - 1) = p

Digit(d) == <<"0", "1", "2", "3", "4", "5", "6", "7", "8", "9">>[d + 1]

\* str(n) for an int n >= 0
RECURSIVE IntToStr(_)
IntToStr(n) ==
    IF n < 10 THEN <<Digit(n)>> ELSE IntToStr(n \div 10) \o <<Digit(n % 10)>>

\* sep.join(parts)
RECURSIVE Join(_, _)
Join(parts, sep) ==
    IF parts = <<>> THEN <<>>
    ELSE IF Len(parts) = 1 THEN parts[1]
    ELSE parts[1] \o sep \o Join(Tail(parts), sep)

Range(seq) == {seq[i] : i \in DOMAIN seq}

\* dict.get(key, default)
Get(d, key, default) == IF key \in DOMAIN d THEN d[key] ELSE default

----------------------------------------------------------------------------
(* extract_metadata *)

\* A parsed document is the sequence of its relevant tags in document order.
\* tag: element name; where: "head" when the tag lies inside <head>;
\* name: the name attribute of a <meta>, the rel attribute of a <link>;
\* text: the tag's text (title, h1), content attribute (meta) or href (link).

TITLES_MARK == <<"U+26A0", "U+FE0F", " ", "M", "U", "L", "T", "I", "P", "L", "E", " ", "T", "I", "T", "L", "E", "S", " ", "F", "O", "U", "N", "D", " ", "(">>
DESCS_MARK == <<"U+26A0", "U+FE0F", " ", "M", "U", "L", "T", "I", "P", "L", "E", " ", "M", "E", "T", "A", " ", "D", "E", "S", "C", "R", "I", "P", "T", "I", "O", "N", "S", " ", "(">>
H1S_MARK == <<"U+26A0", "U+FE0F", " ", "M", "U", "L", "T", "I", "P", "L", "E", " ", "H", "1", " ", "T", "A", "G", "S", " ", "(">>
CANONICALS_MARK == <<"U+26A0", "U+FE0F", " ", "M", "U", "L", "T", "I", "P", "L", "E", " ", "C", "A", "N", "O", "N", "I", "C", "A", "L", " ", "T", "A", "G", "S", " ", "(">>
ROBOTS_MARK == <<"U+26A0", "U+FE0F", " ", "M", "U", "L", "T", "I", "P", "L", "E", " ", "R", "O", "B", "O", "T", "S", " ", "T", "A", "G", "S", " ", "-", " ">>
STR_Yes == <<"Y", "e", "s">>
STR_No == <<"N", "o">>
STR_noindex == <<"n", "o", "i", "n", "d", "e", "x">>

\* f"{mark}{n})"
IssueLine(mark, n) == mark \o IntToStr(n) \o <<")">>

\* mutant: numbered from 0 (f"{i}. {v}")
NumberedFromZero(values) ==
    [i \in 1..Len(values) |-> IntToStr(i - 1) \o <<".", " ">> \o values[i]]

\* [f"{i+1}. {v}" for i, v in enumerate(values)]
Numbered(values) ==
    [i \in 1..Len(values) |-> IntToStr(i) \o <<".", " ">> \o values[i]]

\* str.lower() on the letters the model's robots contents use
LowerChar(c) ==
    CASE c = "N" -> "n" [] c = "O" -> "o" [] c = "I" -> "i" [] c = "D" -> "d"
      [] c = "E" -> "e" [] c = "X" -> "x" [] OTHER -> c

Lower(s) == [i \in 1..Len(s) |-> LowerChar(s[i])]

TextOf(tags) == [i \in 1..Len(tags) |-> tags[i].text]
StripAll(texts) == [i \in 1..Len(texts) |-> Strip(texts[i])]
NonBlank(t) == Strip(t) # <<>>

IsHeadTitle(e) == e.tag = "title" /\ e.where = "head"
IsDescTag(e) == e.tag = "meta" /\ e.name \in {"description", "Description", "DESCRIPTION"}
IsH1(e) == e.tag = "h1"
IsCanonicalTag(e) == e.tag = "link" /\ e.name = "canonical"
IsRobotsTag(e) == e.tag = "meta" /\ e.name = "robots"

\* the list comprehensions of lines 108, 132, 152, 172
HeadTitles(doc) == StripAll(SelectSeq(TextOf(SelectSeq(doc, IsHeadTitle)), NonBlank))
MetaDescriptions(doc) == StripAll(SelectSeq(TextOf(SelectSeq(doc, IsDescTag)), NonBlank))
H1Texts(doc) == StripAll(SelectSeq(TextOf(SelectSeq(doc, IsH1)), NonBlank))
Canonicals(doc) == StripAll(SelectSeq(TextOf(SelectSeq(doc, IsCanonicalTag)), NonBlank))

\* the "Format ... output" blocks: empty, the single value, or marker + numbered list
FormatField(values, mark) ==
    IF values # <<>>
    THEN IF Len(values) = 1
         THEN values[1]
         ELSE IssueLine(mark, Len(values)) \o <<"\n">> \o Join(Numbered(values), <<"\n">>)
    ELSE <<>>

NotEmpty(t) == t # <<>>
RobotsContents(doc) ==
    LET c == SelectSeq(TextOf(SelectSeq(doc, IsRobotsTag)), NotEmpty)
    IN  [i \in 1..Len(c) |-> Lower(c[i])]

RobotsDisplay(doc) ==
    LET contents == RobotsContents(doc)
        meta_robots_noindex == \E i \in DOMAIN contents : Contains(contents[i], STR_noindex)
        robots_display == IF meta_robots_noindex THEN STR_Yes ELSE STR_No
    IN  IF Len(SelectSeq(doc, IsRobotsTag)) > 1
        THEN ROBOTS_MARK \o robots_display
        ELSE robots_display

ExtractMetadata(doc) ==
    ("Meta Title" :> FormatField(HeadTitles(doc), TITLES_MARK)) @@
    ("Meta Description" :> FormatField(MetaDescriptions(doc), DESCS_MARK)) @@
    ("H1" :> FormatField(H1Texts(doc), H1S_MARK)) @@
    ("Canonical URL" :> FormatField(Canonicals(doc), CANONICALS_MARK)) @@
    ("Meta Robots Noindex" :> RobotsDisplay(doc))

----------------------------------------------------------------------------
(* Python values of mixed type (the Status Code is None, an int or a str) *)

PyNone == [tag |-> "None", int |-> 0, str |-> <<>>]
PyInt(n) == [tag |-> "int", int |-> n, str |-> <<>>]
PyStr(s) == [tag |-> "str", int |-> 0, str |-> s]

STR_None == <<"N", "o", "n", "e">>
STR_Error == <<"E", "r", "r", "o", "r">>

\* str(v)
Str(v) ==
    CASE v.tag = "None" -> STR_None
      [] v.tag = "int" -> IntToStr(v.int)
      [] OTHER -> v.str

----------------------------------------------------------------------------
(* Configuration *)

MAX_WORKERS == 12
RETRY_ATTEMPTS == 2

CATEGORIES == <<
    [name |-> <<"P", "r", "o", "d", "u", "c", "t", "s">>,
     pattern |-> <<"/", "p", "r", "o", "d", "u", "c", "t", "s", "/">>],
    [name |-> <<"P", "r", "o", "d", "u", "c", "t">>,
     pattern |-> <<"/", "p", "r", "o", "d", "u", "c", "t", "/">>],
    [name |-> <<"P", "r", "o", "d", "u", "c", "t", " ", "C", "a", "t", "e", "g", "o", "r", "i", "e", "s">>,
     pattern |-> <<"/", "p", "r", "o", "d", "u", "c", "t", "-", "c", "a", "t", "e", "g", "o", "r", "y", "/">>],
    [name |-> <<"C", "o", "l", "l", "e", "c", "t", "i", "o", "n", "s">>,
     pattern |-> <<"/", "c", "o", "l", "l", "e", "c", "t", "i", "o", "n", "s", "/">>],
    [name |-> <<"B", "l", "o", "g">>,
     pattern |-> <<"/", "b", "l", "o", "g", "/">>],
    [name |-> <<"P", "o", "s", "t", "s">>,
     pattern |-> <<"/", "p", "o", "s", "t", "s", "/">>],
    [name |-> <<"B", "l", "o", "g", "s">>,
     pattern |-> <<"/", "b", "l", "o", "g", "s", "/">>],
    [name |-> <<"C", "a", "t", "e", "g", "o", "r", "i", "e", "s">>,
     pattern |-> <<"/", "c", "a", "t", "e", "g", "o", "r", "i", "e", "s", "/">>],
    [name |-> <<"C", "a", "t", "e", "g", "o", "r", "y">>,
     pattern |-> <<"/", "c", "a", "t", "e", "g", "o", "r", "y", "/">>],
    [name |-> <<"P", "o", "r", "t", "f", "o", "l", "i", "o">>,
     pattern |-> <<"/", "p", "o", "r", "t", "f", "o", "l", "i", "o", "/">>],
    [name |-> <<"E", "v", "e", "n", "t", "s">>,
     pattern |-> <<"/", "e", "v", "e", "n", "t", "s", "/">>],
    [name |-> <<"A", "r", "c", "h", "i", "v", "e">>,
     pattern |-> <<"/", "a", "r", "c", "h", "i", "v", "e", "/">>],
    [name |-> <<"T", "a", "g", "s">>,
     pattern |-> <<"/", "t", "a", "g", "s", "/">>],
    [name |-> <<"T", "a", "g">>,
     pattern |-> <<"/", "t", "a", "g", "/">>],
    [name |-> <<"A", "u", "t", "h", "o", "r">>,
     pattern |-> <<"/", "a", "u", "t", "h", "o", "r", "/">>],
    [name |-> <<"U", "s", "e", "r", "s">>,
     pattern |-> <<"/", "u", "s", "e", "r", "s", "/">>],
    [name |-> <<"G", "a", "l", "l", "e", "r", "y">>,
     pattern |-> <<"/", "g", "a", "l", "l", "e", "r", "y", "/">>],
    [name |-> <<"D", "o", "w", "n", "l", "o", "a", "d", "s">>,
     pattern |-> <<"/", "d", "o", "w", "n", "l", "o", "a", "d", "s", "/">>],
    [name |-> <<"D", "o", "c", "s">>,
     pattern |-> <<"/", "d", "o", "c", "s", "/">>],
    [name |-> <<"D", "o", "c", "u", "m", "e", "n", "t", "a", "t", "i", "o", "n">>,
     pattern |-> <<"/", "d", "o", "c", "u", "m", "e", "n", "t", "a", "t", "i", "o", "n", "/">>],
    [name |-> <<"T", "e", "s", "t", "i", "m", "o", "n", "i", "a", "l", "s">>,
     pattern |-> <<"/", "t", "e", "s", "t", "i", "m", "o", "n", "i", "a", "l", "s", "/">>],
    [name |-> <<"T", "e", "s", "t", "i", "m", "o", "n", "i", "a", "l">>,
     pattern |-> <<"/", "t", "e", "s", "t", "i", "m", "o", "n", "i", "a", "l", "/">>],
    [name |-> <<"N", "o", "d", "e">>,
     pattern |-> <<"/", "n", "o", "d", "e", "/">>],
    [name |-> <<"C", "o", "n", "t", "e", "n", "t">>,
     pattern |-> <<"/", "c", "o", "n", "t", "e", "n", "t", "/">>],
    [name |-> <<"A", "r", "t", "i", "c", "l", "e">>,
     pattern |-> <<"/", "a", "r", "t", "i", "c", "l", "e", "/">>],
    [name |-> <<"A", "r", "t", "i", "c", "l", "e", "s">>,
     pattern |-> <<"/", "a", "r", "t", "i", "c", "l", "e", "s", "/">>],
    [name |-> <<"P", "a", "g", "e">>,
     pattern |-> <<"/", "p", "a", "g", "e", "/">>],
    [name |-> <<"P", "a", "g", "e", "s">>,
     pattern |-> <<"/", "p", "a", "g", "e", "s", "/">>],
    [name |-> <<"P", "r", "o", "j", "e", "c", "t", "s">>,
     pattern |-> <<"/", "p", "r", "o", "j", "e", "c", "t", "s", "/">>],
    [name |-> <<"C", "a", "s", "e", " ", "S", "t", "u", "d", "i", "e", "s">>,
     pattern |-> <<"/", "c", "a", "s", "e", "-", "s", "t", "u", "d", "i", "e", "s", "/">>],
    [name |-> <<"L", "o", "c", "a", "t", "i", "o", "n", "s">>,
     pattern |-> <<"/", "l", "o", "c", "a", "t", "i", "o", "n", "s", "/">>],
    [name |-> <<"S", "e", "r", "v", "i", "c", "e">>,
     pattern |-> <<"/", "s", "e", "r", "v", "i", "c", "e", "/">>],
    [name |-> <<"S", "e", "r", "v", "i", "c", "e", "s">>,
     pattern |-> <<"/", "s", "e", "r", "v", "i", "c", "e", "s", "/">>],
    [name |-> <<"C", "o", "u", "r", "s", "e", "s">>,
     pattern |-> <<"/", "c", "o", "u", "r", "s", "e", "s", "/">>],
    [name |-> <<"J", "o", "b", "s">>,
     pattern |-> <<"/", "j", "o", "b", "s", "/">>],
    [name |-> <<"P", "u", "b", "l", "i", "s", "h", "e", "d">>,
     pattern |-> <<"/", "p", "u", "b", "l", "i", "s", "h", "e", "d", "/">>],
    [name |-> <<"D", "r", "a", "f", "t">>,
     pattern |-> <<"/", "d", "r", "a", "f", "t", "/">>],
    [name |-> <<"D", "e", "p", "a", "r", "t", "m", "e", "n", "t", "s">>,
     pattern |-> <<"/", "d", "e", "p", "a", "r", "t", "m", "e", "n", "t", "s", "/">>],
    [name |-> <<"V", "i", "d", "e", "o", "s">>,
     pattern |-> <<"/", "v", "i", "d", "e", "o", "s", "/">>],
    [name |-> <<"V", "i", "d", "e", "o">>,
     pattern |-> <<"/", "v", "i", "d", "e", "o", "/">>],
    [name |-> <<"I", "m", "a", "g", "e", "s">>,
     pattern |-> <<"/", "i", "m", "a", "g", "e", "s", "/">>],
    [name |-> <<"I", "m", "a", "g", "e">>,
     pattern |-> <<"/", "i", "m", "a", "g", "e", "/">>],
    [name |-> <<"W", "P", " ", "C", "o", "n", "t", "e", "n", "t">>,
     pattern |-> <<"/", "w", "p", "-", "c", "o", "n", "t", "e", "n", "t", "/">>],
    [name |-> <<"T", "o", "o", "l", "s">>,
     pattern |-> <<"/", "t", "o", "o", "l", "s", "/">>],
    [name |-> <<"T", "o", "o", "l">>,
     pattern |-> <<"/", "t", "o", "o", "l", "/">>],
    [name |-> <<"H", "e", "l", "p">>,
     pattern |-> <<"/", "h", "e", "l", "p", "/">>],
    [name |-> <<"F", "A", "Q">>,
     pattern |-> <<"/", "f", "a", "q", "/">>],
    [name |-> <<"H", "e", "l", "p", "s">>,
     pattern |-> <<"/", "h", "e", "l", "p", "s", "/">>],
    [name |-> <<"T", "e", "a", "m", "s">>,
     pattern |-> <<"/", "t", "e", "a", "m", "s", "/">>],
    [name |-> <<"T", "e", "a", "m">>,
     pattern |-> <<"/", "t", "e", "a", "m", "/">>],
    [name |-> <<"T", "e", "a", "m", " ", "M", "e", "m", "b", "e", "r", "s">>,
     pattern |-> <<"/", "t", "e", "a", "m", "-", "m", "e", "m", "b", "e", "r", "s", "/">>],
    [name |-> <<"T", "e", "a", "m", " ", "M", "e", "m", "b", "e", "r">>,
     pattern |-> <<"/", "t", "e", "a", "m", "-", "m", "e", "m", "b", "e", "r", "/">>],
    [name |-> <<"M", "e", "m", "b", "e", "r">>,
     pattern |-> <<"/", "m", "e", "m", "b", "e", "r", "/">>],
    [name |-> <<"R", "e", "s", "o", "u", "r", "c", "e", "s">>,
     pattern |-> <<"/", "r", "e", "s", "o", "u", "r", "c", "e", "s", "/">>],
    [name |-> <<"N", "e", "w", "s">>,
     pattern |-> <<"/", "n", "e", "w", "s", "/">>]
>>
MAIN == <<"M", "a", "i", "n">>

----------------------------------------------------------------------------
(* urlparse(url).path *)

\* index of the first element of s that is in stops, Len(s) + 1 when there is none
FirstIn(s, stops) ==
    IF \E i \in DOMAIN s : s[i] \in stops
    THEN CHOOSE i \in DOMAIN s : s[i] \in stops /\ \A j \in 1..(i - 1) : s[j] \notin stops
    ELSE Len(s) + 1

DropTo(s, i) == SubSeq(s, i, Len(s))

UrlPath(url) ==
    LET colon == FirstIn(url, {":"})
        rest == IF colon <= Len(url) /\ FirstIn(url, {"/", "?", "#"}) > colon
                THEN DropTo(url, colon + 1)
                ELSE url
        afternet == IF Len(rest) >= 2 /\ SubSeq(rest, 1, 2) = <<"/", "/">>
                    THEN LET r == DropTo(rest, 3) IN DropTo(r, FirstIn(r, {"/", "?", "#"}))
                    ELSE rest
    IN  SubSeq(afternet, 1, FirstIn(afternet, {"?", "#"}) - 1)

----------------------------------------------------------------------------
(* categorize_data *)

\* sorted(CATEGORIES, key=lambda x: len(x[1]), reverse=True): a stable sort, so
\* categories whose patterns have the same length keep their declared order
SortRank(i) ==
    Cardinality({j \in DOMAIN CATEGORIES :
        \/ Len(CATEGORIES[j].pattern) > Len(CATEGORIES[i].pattern)
        \/ Len(CATEGORIES[j].pattern) = Len(CATEGORIES[i].pattern) /\ j < i}) + 1

\* mutant: the categories tried in their declared order
sorted_categoriesDeclaredOrder == CATEGORIES

sorted_categories ==
    [r \in DOMAIN CATEGORIES |-> CATEGORIES[CHOOSE i \in DOMAIN CATEGORIES : SortRank(i) = r]]

CategoryNames == {CATEGORIES[i].name : i \in DOMAIN CATEGORIES}

\* the inner for loop with its break: the name of the first sorted category whose
\* pattern is in the path, MAIN when the loop ends unmatched
BucketOf(path) ==
    LET hits == {r \in DOMAIN sorted_categories : Contains(path, sorted_categories[r].pattern)}
    IN  IF hits = {} THEN MAIN
        ELSE sorted_categories[CHOOSE r \in hits : \A q \in hits : r <= q].name

EmptyBuckets == [n \in CategoryNames \cup {MAIN} |-> <<>>]

\* one iteration of the outer loop
CategorizeOne(acc, data) ==
    LET name == BucketOf(UrlPath(data["Original URL"]))
    IN  [acc EXCEPT ![name] = Append(@, data)]

RECURSIVE CategorizeInto(_, _)
CategorizeInto(acc, list) ==
    IF list = <<>> THEN acc
    ELSE CategorizeInto(CategorizeOne(acc, Head(list)), Tail(list))

\* mutant: the buckets are kept between calls instead of being built afresh
CategorizeDataKeepingBuckets(list) == CategorizeInto(categorized, list)

CategorizeData(list) == CategorizeInto(EmptyBuckets, list)

----------------------------------------------------------------------------
(* create_excel_report *)

columns_order == <<"Original URL", "Final URL", "Meta Title", "Meta Description", "H1",
                   "Status Code", "Redirect Count", "Canonical URL", "Meta Robots Noindex">>

SHEET_NAME_LIMIT == 31
STR_Info == <<"I", "n", "f", "o">>
STR_NoUrls == <<"N", "o", " ", "U", "R", "L", "s", " ", "f", "o", "u", "n", "d", " ", "i", "n", " ", "s", "i", "t", "e", "m", "a", "p">>

\* the header row, then one row per item (rows 2..)
SheetRows(items) ==
    <<columns_order>> \o
    [k \in 1..Len(items) |-> [c \in DOMAIN columns_order |-> items[k][columns_order[c]]]]

Sheet(title, items) == [title |-> title, rows |-> SheetRows(items)]

\* name[:31]
Truncate(name) == SubSeq(name, 1, IF Len(name) < SHEET_NAME_LIMIT THEN Len(name) ELSE SHEET_NAME_LIMIT)

\* mutant: the Main sheet created whether or not the bucket is empty
MainSheetAlways(cat) == <<Sheet(MAIN, cat[MAIN])>>

MainSheet(cat) == IF cat[MAIN] # <<>> THEN <<Sheet(MAIN, cat[MAIN])>> ELSE <<>>

\* the loop over CATEGORIES from its k-th entry on
RECURSIVE CategorySheets(_, _)
CategorySheets(cat, k) ==
    IF k > Len(CATEGORIES) THEN <<>>
    ELSE (IF cat[CATEGORIES[k].name] # <<>>
          THEN <<Sheet(Truncate(CATEGORIES[k].name), cat[CATEGORIES[k].name])>>
          ELSE <<>>) \o CategorySheets(cat, k + 1)

InfoSheet(cat) ==
    IF \A n \in DOMAIN cat : cat[n] = <<>>
    THEN <<[title |-> STR_Info, rows |-> <<(<<STR_NoUrls>>)>>]>>
    ELSE <<>>

CreateExcelReport(cat) == MainSheet(cat) \o CategorySheets(cat, 1) \o InfoSheet(cat)

----------------------------------------------------------------------------
(* analyze_sitemap: issue counters and response stats *)

TITLE_LIMIT == 60
DESCRIPTION_MIN == 120
SUB_MULTIPLE_TITLES == <<"U+26A0", "U+FE0F", " ", "M", "U", "L", "T", "I", "P", "L", "E", " ", "T", "I", "T", "L", "E", "S">>
SUB_MULTIPLE_H1 == <<"U+26A0", "U+FE0F", " ", "M", "U", "L", "T", "I", "P", "L", "E", " ", "H", "1">>

\* sum(1 for item in list if Test(item)) is Len(SelectSeq(list, Test))

HasMultipleTitles(item) == Contains(item["Meta Title"], SUB_MULTIPLE_TITLES)
HasMissingDescription(item) == Strip(item["Meta Description"]) = <<>>
HasMultipleH1s(item) == Contains(item["H1"], SUB_MULTIPLE_H1)
IsNoindex(item) == Contains(item["Meta Robots Noindex"], STR_Yes)
HasLongTitle(item) == Len(item["Meta Title"]) > TITLE_LIMIT
HasShortDescription(item) ==
    0 < Len(item["Meta Description"]) /\ Len(item["Meta Description"]) < DESCRIPTION_MIN
IsErrorItem(item) == Contains(Str(item["Status Code"]), STR_Error)

CountIssues(list) ==
    [multipleTitles |-> Len(SelectSeq(list, HasMultipleTitles)),
     missingDescriptions |-> Len(SelectSeq(list, HasMissingDescription)),
     multipleH1s |-> Len(SelectSeq(list, HasMultipleH1s)),
     noindexPages |-> Len(SelectSeq(list, IsNoindex)),
     longTitles |-> Len(SelectSeq(list, HasLongTitle)),
     shortDescriptions |-> Len(SelectSeq(list, HasShortDescription)),
     errors |-> Len(SelectSeq(list, IsErrorItem))]

\* mutant: duplicate H1s not subtracted
HealthyIgnoringH1(list, iss) == Len(list) - iss.errors - iss.multipleTitles

Healthy(list, iss) == Len(list) - iss.errors - (iss.multipleTitles + iss.multipleH1s)

Warnings(iss) == iss.multipleTitles + iss.multipleH1s + iss.longTitles + iss.shortDescriptions

ResponseStats(list, iss) ==
    [processed |-> Len(list),
     errors |-> iss.errors,
     warnings |-> Warnings(iss),
     healthy |-> Healthy(list, iss)]

----------------------------------------------------------------------------
(* The site under analysis: the page URLs and what the network answers *)

STR_Home == <<"H", "o", "m", "e">>
STR_Welcome == <<"W", "e", "l", "c", "o", "m", "e">>

SITE_URLS == <<
    <<"h", "t", "t", "p", "s", ":", "/", "/", "e", "x", "a", "m", "p", "l", "e", ".", "c", "o", "m", "/", "t", "e", "a", "m", "/">>,
    <<"h", "t", "t", "p", "s", ":", "/", "/", "e", "x", "a", "m", "p", "l", "e", ".", "c", "o", "m", "/", "b", "l", "o", "g", "/", "p", "o", "s", "t", "-", "1">>,
    <<"h", "t", "t", "p", "s", ":", "/", "/", "e", "x", "a", "m", "p", "l", "e", ".", "c", "o", "m", "/", "a", "b", "o", "u", "t">>,
    <<"h", "t", "t", "p", "s", ":", "/", "/", "e", "x", "a", "m", "p", "l", "e", ".", "c", "o", "m", "/", "t", "a", "g", "s", "/", "b", "l", "o", "g", "/">> >>

Tag(tag, where, name, text) == [tag |-> tag, where |-> where, name |-> name, text |-> text]

DOC_PLAIN == <<Tag("title", "head", "", STR_Home), Tag("h1", "body", "", STR_Home)>>
DOC_EMPTY == <<>>

\* What one session.get plus BeautifulSoup(...) can end in: an exception raised by
\* session.get (kind "Timeout", "ConnectionError": no response), or a response,
\* whose markup the parser accepts (kind "response") or rejects by raising
\* (kind "RejectedMarkup").  requests raises nothing for a 4xx/5xx status.
Outcome(kind, status, url, history, content) ==
    [kind |-> kind, status_code |-> status, url |-> url, history |-> history, content |-> content]

GetExceptions == {"Timeout", "ConnectionError"}

\* Every URL may time out, refuse the connection, answer 200 or answer 404 after
\* one redirect; the third page may also answer with markup the parser rejects.
Outcomes(url) ==
    {Outcome(k, 0, url, 0, DOC_EMPTY) : k \in GetExceptions} \cup
    {Outcome("response", 200, url, 0, DOC_PLAIN),
     Outcome("response", 404, url \o <<"/">>, 1, DOC_EMPTY)} \cup
    (IF url = SITE_URLS[3]
     THEN {Outcome("RejectedMarkup", 200, url \o <<"/">>, 1, DOC_EMPTY)}
     ELSE {})

----------------------------------------------------------------------------
(* process_url *)

\* the locals of one call, before its first attempt; log is the sequence of the
\* attempts made so far, each with how it ended and the status it was answered
\* with, 0 when there was no answer (the logging.warning calls, plus the
\* successful attempt)
NewTask(url) ==
    [state |-> "pending", url |-> url, attempt |-> 0, final_url |-> url,
     status_code |-> PyNone, redirect_count |-> 0, metadata |-> <<>>, log |-> <<>>]

\* lines 282-285: the assignments made once session.get has returned
WithResponse(t, o) ==
    [t EXCEPT !.status_code = PyInt(o.status_code), !.final_url = o.url,
              !.redirect_count = o.history]

\* mutant: only a timeout is reported as Error (except requests.Timeout)
OnExceptionTimeoutOnly(t) ==
    IF t.attempt = RETRY_ATTEMPTS - 1 /\ t.log[Len(t.log)].kind = "Timeout"
    THEN [t EXCEPT !.status_code = PyStr(STR_Error)]
    ELSE t

\* lines 291-294: the except branch of attempt number t.attempt
OnException(t) ==
    IF t.attempt = RETRY_ATTEMPTS - 1 THEN [t EXCEPT !.status_code = PyStr(STR_Error)] ELSE t

\* mutant: no break after a successful attempt
AfterSuccessNoBreak(t) ==
    [t EXCEPT !.attempt = @ + 1,
              !.state = IF t.attempt + 1 < RETRY_ATTEMPTS THEN "running" ELSE "done"]

\* after a successful attempt: break
AfterSuccess(t) == [t EXCEPT !.state = "done", !.attempt = @ + 1]

\* after a failed attempt: the next iteration of range(RETRY_ATTEMPTS), if any
AfterFailure(t) ==
    [t EXCEPT !.attempt = @ + 1,
              !.state = IF t.attempt + 1 < RETRY_ATTEMPTS THEN "running" ELSE "done"]

\* one iteration of the for loop, the network answering with outcome o
AttemptStep(t, o) ==
    LET logged == [t EXCEPT !.log = Append(@, [kind |-> o.kind, status_code |-> o.status_code])]
    IN  CASE o.kind \in GetExceptions -> AfterFailure(OnException(logged))
          [] o.kind = "RejectedMarkup" -> AfterFailure(OnException(WithResponse(logged, o)))
          [] OTHER ->
               AfterSuccess([WithResponse(logged, o) EXCEPT !.metadata = ExtractMetadata(o.content)])

\* mutant: the title of a page that was never extracted defaults to the status text
RecordTitleDefault(t) ==
    ("Original URL" :> t.url) @@
    ("Final URL" :> t.final_url) @@
    ("Meta Title" :> Get(t.metadata, "Meta Title", Str(t.status_code))) @@
    ("Meta Description" :> Get(t.metadata, "Meta Description", <<>>)) @@
    ("H1" :> Get(t.metadata, "H1", <<>>)) @@
    ("Status Code" :> t.status_code) @@
    ("Redirect Count" :> t.redirect_count) @@
    ("Canonical URL" :> Get(t.metadata, "Canonical URL", <<>>)) @@
    ("Meta Robots Noindex" :> Get(t.metadata, "Meta Robots Noindex", STR_No))

\* the returned dict
Record(t) ==
    ("Original URL" :> t.url) @@
    ("Final URL" :> t.final_url) @@
    ("Meta Title" :> Get(t.metadata, "Meta Title", <<>>)) @@
    ("Meta Description" :> Get(t.metadata, "Meta Description", <<>>)) @@
    ("H1" :> Get(t.metadata, "H1", <<>>)) @@
    ("Status Code" :> t.status_code) @@
    ("Redirect Count" :> t.redirect_count) @@
    ("Canonical URL" :> Get(t.metadata, "Canonical URL", <<>>)) @@
    ("Meta Robots Noindex" :> Get(t.metadata, "Meta Robots Noindex", STR_No))

----------------------------------------------------------------------------
(* get_sitemap_urls *)

\* A sitemap document is [kind, entries]: kind "fail" when the fetch or the XML
\* parse raises; "index", entries the <sitemap> elements, each the node its <loc>
\* names or NoLoc when it has no <loc>; "urlset", entries the <url> elements,
\* each its <loc> text or NoLocText when it has no <loc>.
NoLoc == 0
NoLocText == <<"(no loc)">>

\* list(set(urls)): the distinct elements, in an order the caller must not rely on
RECURSIVE SetToSeq(_)
SetToSeq(S) ==
    IF S = {} THEN <<>>
    ELSE LET x == CHOOSE x \in S : TRUE IN <<x>> \o SetToSeq(S \ {x})

\* mutant: the list returned as collected, without set()
ListOfSetKeepAll(urls) == urls

ListOfSet(urls) == SetToSeq(Range(urls))

\* the orders the returned list may come in (set iteration order is unspecified)
Orderings(list) ==
    {[i \in DOMAIN list |-> list[p[i]]] :
        p \in {q \in [DOMAIN list -> DOMAIN list] : \A i, j \in DOMAIN list : q[i] = q[j] => i = j}}

\* the urlset branch: the loop with its `if loc is not None`
UrlsetLocs(entries) == SelectSeq(entries, LAMBDA e : e # NoLocText)

RECURSIVE GetSitemapUrls(_, _)
\* the sitemapindex branch from its k-th <sitemap> on; raised when
\* sitemap.find('sm:loc') is None and .text raises
RECURSIVE IndexLoop(_, _, _, _)
IndexLoop(w, entries, k, urls) ==
    IF k > Len(entries) THEN [raised |-> FALSE, urls |-> urls]
    ELSE IF entries[k] = NoLoc THEN [raised |-> TRUE, urls |-> urls]
    ELSE IndexLoop(w, entries, k + 1, urls \o GetSitemapUrls(w, entries[k]))

GetSitemapUrls(w, n) ==
    IF w[n].kind = "fail" THEN <<>>
    ELSE IF w[n].kind = "index"
    THEN LET r == IndexLoop(w, w[n].entries, 1, <<>>)
         IN  IF r.raised THEN <<>> ELSE ListOfSet(r.urls)
    ELSE ListOfSet(UrlsetLocs(w[n].entries))

----------------------------------------------------------------------------
(* Bounds of the model and the inputs drawn within them *)

PoolCap == 2
MaxNodes == 3
MaxTags == 3
MaxCatRecords == 2
MaxStatRecords == 3

Min(a, b) == IF a < b THEN a ELSE b

\* the executor's max_workers; the model runs at most PoolCap workers so that
\* tasks queue with few URLs
PoolSize == Min(MAX_WORKERS, PoolCap)

\* the duplicate-free sequences of at most n elements of S
DistinctSeqs(S, n) ==
    UNION {{s \in [1..k -> S] : \A i, j \in 1..k : s[i] = s[j] => i = j} :
           k \in 0..Min(n, Cardinality(S))}

SeqsUpTo(S, n) == UNION {[1..k -> S] : k \in 0..n}

\* the URLs the pipeline is run over
PipelineUrls == {SITE_URLS[1], SITE_URLS[2], SITE_URLS[3]}

\* sitemap documents: node 1 is the root, an index names only later nodes
UrlsetDocs ==
    {[kind |-> "urlset", entries |-> e] :
        e \in {<<>>, <<SITE_URLS[1]>>, <<SITE_URLS[1], SITE_URLS[2]>>,
               <<SITE_URLS[2], SITE_URLS[3]>>, <<SITE_URLS[1], NoLocText, SITE_URLS[1]>>}}

IndexDocs(n) ==
    {[kind |-> "index", entries |-> e] : e \in SeqsUpTo((n + 1)..MaxNodes \cup {NoLoc}, 2)}

NodeDocs(n) == {[kind |-> "fail", entries |-> <<>>]} \cup UrlsetDocs \cup IndexDocs(n)

Webs == {w \in [1..MaxNodes -> UNION {NodeDocs(n) : n \in 1..MaxNodes}] :
            \A n \in 1..MaxNodes : w[n] \in NodeDocs(n)}

\* parsed pages for extract_metadata
STR_Blank == <<" ">>
STR_PaddedWelcome == <<" ", "W", "e", "l", "c", "o", "m", "e", " ">>
STR_Canon == <<"h", "t", "t", "p", "s", ":", "/", "/", "e", "x", "a", "m", "p", "l", "e", ".", "c", "o", "m", "/">>
STR_NoIndexFollow == <<"N", "O", "I", "N", "D", "E", "X", ",", " ", "f", "o", "l", "l", "o", "w">>
STR_IndexFollow == <<"i", "n", "d", "e", "x", ",", " ", "f", "o", "l", "l", "o", "w">>

Elements ==
    {Tag("title", "head", "", STR_Home), Tag("title", "head", "", STR_PaddedWelcome),
     Tag("title", "head", "", STR_Blank), Tag("title", "body", "", STR_Home),
     Tag("h1", "body", "", STR_Home), Tag("h1", "body", "", STR_PaddedWelcome),
     Tag("h1", "body", "", <<>>),
     Tag("meta", "head", "description", STR_Home), Tag("meta", "head", "DESCRIPTION", STR_Welcome),
     Tag("meta", "head", "description", STR_Blank), Tag("meta", "head", "DeScription", STR_Home),
     Tag("link", "head", "canonical", STR_Canon), Tag("link", "head", "canonical", <<>>),
     Tag("link", "head", "stylesheet", STR_Canon),
     Tag("meta", "head", "robots", STR_NoIndexFollow), Tag("meta", "head", "robots", STR_IndexFollow),
     Tag("meta", "head", "robots", <<>>)}

Docs == SeqsUpTo(Elements, MaxTags)

\* URLs for categorize_data: paths of one segment, with and without the closing
\* slash, paths of two segments, and a URL whose query, not its path, holds a
\* pattern.  "/testimonials/" is as long as "/team-members/" and declared before
\* it; "/documentation/" is longer.
ORIGIN == <<"h", "t", "t", "p", "s", ":", "/", "/", "e", "x", "a", "m", "p", "l", "e", ".", "c", "o", "m">>
SEG_team == <<"t", "e", "a", "m">>
SEG_members == <<"t", "e", "a", "m", "-", "m", "e", "m", "b", "e", "r", "s">>
SEG_testimonials == <<"t", "e", "s", "t", "i", "m", "o", "n", "i", "a", "l", "s">>
SEG_documentation == <<"d", "o", "c", "u", "m", "e", "n", "t", "a", "t", "i", "o", "n">>
SEG_x == <<"x">>
Segments == {SEG_team, SEG_members, SEG_testimonials, SEG_documentation, SEG_x}

SegmentPairs ==
    {<<SEG_team, SEG_members>>, <<SEG_members, SEG_team>>, <<SEG_testimonials, SEG_members>>,
     <<SEG_members, SEG_documentation>>, <<SEG_x, SEG_team>>, <<SEG_x, SEG_x>>}

CatPaths ==
    {<<"/">> \o s \o t : s \in Segments, t \in {<<>>, <<"/">>}} \cup
    {<<"/">> \o pr[1] \o <<"/">> \o pr[2] \o <<"/">> : pr \in SegmentPairs}

CatUrls == {ORIGIN \o p : p \in CatPaths} \cup {ORIGIN \o <<"/", "x", "?", "n", "e", "x", "t", "=", "/", "t", "e", "a", "m", "/">>}

\* a record as process_url returns it for a page that answers 200 with content doc
OkRecord(url, doc) == Record(AttemptStep(NewTask(url), Outcome("response", 200, url, 0, doc)))

\* a record as process_url returns it when every attempt times out
RECURSIVE FailAll(_)
FailAll(t) ==
    IF t.state = "done" THEN t ELSE FailAll(AttemptStep(t, Outcome("Timeout", 0, t.url, 0, DOC_EMPTY)))

ErrorRecord(url) == Record(FailAll(NewTask(url)))

Repeat(c, n) == [i \in 1..n |-> c]

STAT_DOCS == <<
    DOC_PLAIN,
    <<Tag("title", "head", "", STR_Home), Tag("title", "head", "", STR_Welcome)>>,
    <<Tag("h1", "body", "", STR_Home), Tag("h1", "body", "", STR_Welcome)>>,
    <<Tag("title", "head", "", STR_Home), Tag("title", "head", "", STR_Welcome),
      Tag("h1", "body", "", STR_Home), Tag("h1", "body", "", STR_Welcome)>>,
    <<Tag("title", "head", "", Repeat("t", TITLE_LIMIT + 1)),
      Tag("meta", "head", "description", Repeat("d", DESCRIPTION_MIN))>>,
    <<Tag("title", "head", "", STR_Home), Tag("meta", "head", "description", STR_Home),
      Tag("meta", "head", "robots", STR_NoIndexFollow)>> >>

\* kind 0: every attempt failed; kind k > 0: a 200 answer with content STAT_DOCS[k]
StatRecord(url, k) == IF k = 0 THEN ErrorRecord(url) ELSE OkRecord(url, STAT_DOCS[k])

StatLists ==
    UNION {{[i \in 1..n |-> StatRecord(SITE_URLS[i], f[i])] : f \in [1..n -> 0..Len(STAT_DOCS)]} :
           n \in 0..Min(MaxStatRecords, Len(SITE_URLS))}

CatLists ==
    {[i \in DOMAIN l |-> OkRecord(l[i], DOC_PLAIN)] : l \in DistinctSeqs(CatUrls, MaxCatRecords)}

----------------------------------------------------------------------------
(* State machine *)

NoIssues == CountIssues(<<>>)

\* --- get_sitemap_urls, called by analyze_sitemap (line 440)
Resolve ==
    /\ pc = "start"
    /\ \E order \in Orderings(GetSitemapUrls(web, 1)) : all_urls' = order
    /\ pc' = "resolved"
    /\ UNCHANGED <<web, futures, metadata_list, categorized, workbook, issues, stats,
                   soup, extracted>>

\* --- analyze_sitemap, lines 443-444
RejectEmpty ==
    /\ pc = "resolved"
    /\ all_urls = <<>>
    /\ pc' = "error400"
    /\ UNCHANGED <<web, all_urls, futures, metadata_list, categorized, workbook, issues,
                   stats, soup, extracted>>

\* --- lines 447-449: one task per element of all_urls
Submit ==
    /\ pc = "resolved"
    /\ all_urls # <<>>
    /\ futures' = [i \in DOMAIN all_urls |-> NewTask(all_urls[i])]
    /\ metadata_list' = <<>>
    /\ pc' = "collect"
    /\ UNCHANGED <<web, all_urls, categorized, workbook, issues, stats, soup, extracted>>

Running == {i \in DOMAIN futures : futures[i].state = "running"}

\* --- a free worker takes the oldest queued task
StartTask(i) ==
    /\ pc = "collect"
    /\ futures[i].state = "pending"
    /\ \A j \in 1..(i - 1) : futures[j].state # "pending"
    /\ Cardinality(Running) < PoolSize
    /\ futures' = [futures EXCEPT ![i].state = "running"]
    /\ UNCHANGED <<pc, web, all_urls, metadata_list, categorized, workbook, issues, stats,
                   soup, extracted>>

\* --- process_url: one attempt of a running task
Attempt(i) ==
    /\ pc = "collect"
    /\ futures[i].state = "running"
    /\ \E o \in Outcomes(futures[i].url) : futures' = [futures EXCEPT ![i] = AttemptStep(@, o)]
    /\ UNCHANGED <<pc, web, all_urls, metadata_list, categorized, workbook, issues, stats,
                   soup, extracted>>

\* --- lines 451-453: as_completed yields a finished future, its result is appended
Collect(i) ==
    /\ pc = "collect"
    /\ futures[i].state = "done"
    /\ metadata_list' = Append(metadata_list, Record(futures[i]))
    /\ futures' = [futures EXCEPT ![i].state = "yielded"]
    /\ UNCHANGED <<pc, web, all_urls, categorized, workbook, issues, stats, soup, extracted>>

\* mutant: the loop left at the first finished future
AllYieldedFirstOnly == \E i \in DOMAIN futures : futures[i].state = "yielded"

AllYielded == \A i \in DOMAIN futures : futures[i].state = "yielded"

\* --- line 456, once as_completed is exhausted
Categorize ==
    /\ pc = "collect"
    /\ AllYielded
    /\ categorized' = CategorizeData(metadata_list)
    /\ pc' = "categorized"
    /\ UNCHANGED <<web, all_urls, futures, metadata_list, workbook, issues, stats, soup,
                   extracted>>

\* --- categorize_data called again on the same list
Recategorize ==
    /\ pc \in {"categorized", "recategorized"}
    /\ categorized' = CategorizeData(metadata_list)
    /\ pc' = "recategorized"
    /\ UNCHANGED <<web, all_urls, futures, metadata_list, workbook, issues, stats, soup,
                   extracted>>

\* --- lines 460-468
CountIssuesStep ==
    /\ pc = "categorized"
    /\ issues' = CountIssues(metadata_list)
    /\ pc' = "counted"
    /\ UNCHANGED <<web, all_urls, futures, metadata_list, categorized, workbook, stats,
                   soup, extracted>>

\* --- line 475
CreateReport ==
    /\ pc = "counted"
    /\ workbook' = CreateExcelReport(categorized)
    /\ pc' = "reported"
    /\ UNCHANGED <<web, all_urls, futures, metadata_list, categorized, issues, stats, soup,
                   extracted>>

\* --- lines 488-501
Respond ==
    /\ pc = "reported"
    /\ stats' = ResponseStats(metadata_list, issues)
    /\ pc' = "done"
    /\ UNCHANGED <<web, all_urls, futures, metadata_list, categorized, workbook, issues,
                   soup, extracted>>

\* --- extract_metadata applied to a parsed page
Extract ==
    /\ pc = "parsed"
    /\ extracted' = ExtractMetadata(soup)
    /\ pc' = "extracted"
    /\ UNCHANGED <<web, all_urls, futures, metadata_list, categorized, workbook, issues,
                   stats, soup>>

----------------------------------------------------------------------------
(* Specifications *)

\* analyze_sitemap from the resolved URL list on
Init ==
    /\ pc = "resolved"
    /\ all_urls \in DistinctSeqs(PipelineUrls, Cardinality(PipelineUrls))
    /\ web = <<>> /\ futures = <<>> /\ metadata_list = <<>> /\ categorized = EmptyBuckets
    /\ workbook = <<>> /\ issues = NoIssues /\ stats = ResponseStats(<<>>, NoIssues)
    /\ soup = <<>> /\ extracted = <<>>

Next ==
    \/ RejectEmpty
    \/ Submit
    \/ \E i \in DOMAIN futures : StartTask(i)
    \/ \E i \in DOMAIN futures : Attempt(i)
    \/ \E i \in DOMAIN futures : Collect(i)
    \/ Categorize

Spec == Init /\ [][Next]_vars

\* get_sitemap_urls over every sitemap tree within the bounds
InitSitemap ==
    /\ pc = "start"
    /\ web \in Webs
    /\ all_urls = <<>> /\ futures = <<>> /\ metadata_list = <<>> /\ categorized = EmptyBuckets
    /\ workbook = <<>> /\ issues = NoIssues /\ stats = ResponseStats(<<>>, NoIssues)
    /\ soup = <<>> /\ extracted = <<>>

NextSitemap == Resolve \/ RejectEmpty

SpecSitemap == InitSitemap /\ [][NextSitemap]_vars

\* extract_metadata over every page within the bounds
InitExtract ==
    /\ pc = "parsed"
    /\ soup \in Docs
    /\ web = <<>> /\ all_urls = <<>> /\ futures = <<>> /\ metadata_list = <<>>
    /\ categorized = EmptyBuckets /\ workbook = <<>> /\ issues = NoIssues
    /\ stats = ResponseStats(<<>>, NoIssues) /\ extracted = <<>>

NextExtract == Extract

SpecExtract == InitExtract /\ [][NextExtract]_vars

\* categorize_data and create_excel_report over record lists that differ by URL
InitCat ==
    /\ pc = "collect"
    /\ metadata_list \in CatLists
    /\ web = <<>> /\ all_urls = <<>> /\ futures = <<>> /\ categorized = EmptyBuckets
    /\ workbook = <<>> /\ issues = NoIssues /\ stats = ResponseStats(<<>>, NoIssues)
    /\ soup = <<>> /\ extracted = <<>>

NextCat == Categorize \/ Recategorize \/ CountIssuesStep \/ CreateReport

SpecCat == InitCat /\ [][NextCat]_vars

\* the counters over record lists that differ by page content and status
InitStats ==
    /\ pc = "collect"
    /\ metadata_list \in StatLists
    /\ web = <<>> /\ all_urls = <<>> /\ futures = <<>> /\ categorized = EmptyBuckets
    /\ workbook = <<>> /\ issues = NoIssues /\ stats = ResponseStats(<<>>, NoIssues)
    /\ soup = <<>> /\ extracted = <<>>

NextStats == Categorize \/ CountIssuesStep \/ CreateReport \/ Respond

SpecStats == InitStats /\ [][NextStats]_vars

----------------------------------------------------------------------------
(* Claims about the coordinator and process_url (specification Spec) *)

Finished(i) == futures[i].state \in {"done", "yielded"}
Failed(entry) == entry.kind # "response"
RecordsOf(url) == {k \in DOMAIN metadata_list : metadata_list[k]["Original URL"] = url}
\* the record collected for task i
Collected(i) == metadata_list[CHOOSE k \in DOMAIN metadata_list : k \in RecordsOf(futures[i].url)]
MetadataFields == {"Meta Title", "Meta Description", "H1", "Canonical URL"}

\* C1: when the result list is handed to categorize_data it holds exactly one
\* record for each submitted URL and no other record, whatever the order the
\* tasks completed in, and no submitted task is unfinished at that point.
C1_OneRecordPerUrl ==
    pc = "categorized" =>
        /\ \A i \in DOMAIN futures : futures[i].state = "yielded"
        /\ DOMAIN futures = DOMAIN all_urls
        /\ Len(metadata_list) = Len(all_urls)
        /\ \A i \in DOMAIN all_urls : Cardinality(RecordsOf(all_urls[i])) = 1
        /\ \A k \in DOMAIN metadata_list : metadata_list[k]["Original URL"] \in Range(all_urls)
        /\ \A n \in DOMAIN categorized :
               \A k \in DOMAIN categorized[n] : categorized[n][k] \in Range(metadata_list)

\* three URLs handed on, the last submitted having completed first
C1_Witness ==
    /\ pc = "categorized"
    /\ Len(all_urls) = 3
    /\ metadata_list[1]["Original URL"] = all_urls[3]
    /\ metadata_list[3]["Original URL"] = all_urls[1]

\* C2: process_url makes between one and RETRY_ATTEMPTS attempts, none after a
\* successful one, and always ends with a record; the record's status is Error
\* exactly when the last permitted attempt failed, and otherwise the status code
\* of the successful attempt.
C2_RetryContract ==
    \A i \in DOMAIN futures :
        LET t == futures[i] IN
        /\ Len(t.log) <= RETRY_ATTEMPTS
        /\ \A k \in 1..(Len(t.log) - 1) : Failed(t.log[k])
        /\ t.state = "running" => Len(t.log) < RETRY_ATTEMPTS
        /\ Finished(i) =>
              /\ Len(t.log) >= 1
              /\ \/ ~Failed(t.log[Len(t.log)])
                 \/ Len(t.log) = RETRY_ATTEMPTS
        /\ t.state = "yielded" =>
              LET last == t.log[Len(t.log)]
                  lastFailed == Len(t.log) = RETRY_ATTEMPTS /\ Failed(last)
              IN  /\ (Collected(i)["Status Code"] = PyStr(STR_Error)) <=> lastFailed
                  /\ ~lastFailed => Collected(i)["Status Code"] = PyInt(last.status_code)

\* a record collected after a failed first attempt and a successful second one
C2_Witness ==
    \E i \in DOMAIN futures :
        /\ futures[i].state = "yielded"
        /\ Len(futures[i].log) = 2
        /\ futures[i].log[1].kind = "Timeout"
        /\ futures[i].log[2].kind = "response"
        /\ Collected(i)["Status Code"] = PyInt(200)

\* C3 as stated: a timeout, a connection failure and an HTTP error response are
\* each a failed attempt, and a URL all of whose attempts end in one of these
\* yields statusCode = Error.
HttpError(entry) == entry.kind = "response" /\ entry.status_code >= 400
C3_HttpErrorIsFailure ==
    \A i \in DOMAIN futures :
        (/\ futures[i].state = "yielded"
         /\ \A k \in DOMAIN futures[i].log :
                futures[i].log[k].kind \in GetExceptions \/ HttpError(futures[i].log[k]))
        => Collected(i)["Status Code"] = PyStr(STR_Error)

\* C3, amended: failures are not distinguished by cause: a URL all of whose
\* attempts raise (a timeout, a connection failure, markup the parser rejects)
\* yields statusCode = Error whatever the causes were; an HTTP error response
\* raises nothing, ends the attempts and its status code is the record's.
C3_FailuresNotDistinguished ==
    \A i \in DOMAIN futures :
        futures[i].state = "yielded" =>
            LET log == futures[i].log IN
            /\ (\A k \in DOMAIN log : Failed(log[k]))
                   => /\ Len(log) = RETRY_ATTEMPTS
                      /\ Collected(i)["Status Code"] = PyStr(STR_Error)
            /\ HttpError(log[Len(log)])
                   => Collected(i)["Status Code"] = PyInt(log[Len(log)].status_code)

\* a URL that timed out and then refused the connection, and one answering 404
C3_Witness ==
    /\ \E i \in DOMAIN futures :
          /\ futures[i].state = "yielded"
          /\ futures[i].log[1].kind = "Timeout"
          /\ Len(futures[i].log) = 2
          /\ futures[i].log[2].kind = "ConnectionError"
          /\ Collected(i)["Status Code"] = PyStr(STR_Error)
    /\ \E i \in DOMAIN futures :
          /\ futures[i].state = "yielded"
          /\ HttpError(futures[i].log[1])
          /\ Collected(i)["Status Code"] = PyInt(404)

TimedOutTwice(i) ==
    /\ futures[i].state = "yielded"
    /\ Len(futures[i].log) = 2
    /\ \A k \in 1..2 : futures[i].log[k].kind = "Timeout"

\* C4 as stated: a URL that times out on both attempts yields statusCode = Error,
\* redirectCount = 0 and all five metadata fields empty.
C4_AllFiveFieldsEmpty ==
    \A i \in DOMAIN futures :
        TimedOutTwice(i) =>
            /\ Collected(i)["Status Code"] = PyStr(STR_Error)
            /\ Collected(i)["Redirect Count"] = 0
            /\ \A f \in MetadataFields \cup {"Meta Robots Noindex"} : Collected(i)[f] = <<>>

\* C4, amended: a URL that times out on both attempts yields statusCode = Error,
\* redirectCount = 0, title, description, H1 and canonical URL empty, and the
\* noindex status "No".
C4_TimeoutRecord ==
    \A i \in DOMAIN futures :
        TimedOutTwice(i) =>
            /\ Collected(i)["Status Code"] = PyStr(STR_Error)
            /\ Collected(i)["Redirect Count"] = 0
            /\ \A f \in MetadataFields : Collected(i)[f] = <<>>
            /\ Collected(i)["Meta Robots Noindex"] = STR_No

C4_Witness == \E i \in DOMAIN futures : TimedOutTwice(i) /\ Collected(i)["Final URL"] = futures[i].url

----------------------------------------------------------------------------
(* Claim about get_sitemap_urls (specification SpecSitemap) *)

\* a node that contributes nothing: its fetch or XML parse raises, or it is an
\* index one of whose <sitemap> entries has no <loc> (reading it raises too)
NodeFails(n) ==
    \/ web[n].kind = "fail"
    \/ web[n].kind = "index" /\ NoLoc \in Range(web[n].entries)

\* n is the root or is named by an index that is itself reached and does not fail
RECURSIVE ReachedNode(_)
ReachedNode(n) ==
    \/ n = 1
    \/ \E m \in 1..(n - 1) :
          /\ web[m].kind = "index"
          /\ ~NodeFails(m)
          /\ n \in Range(web[m].entries)
          /\ ReachedNode(m)

ReachedUrlsets == {n \in DOMAIN web : web[n].kind = "urlset" /\ ReachedNode(n)}

ExpectedUrls == UNION {{e \in Range(web[n].entries) : e # NoLocText} : n \in ReachedUrlsets}

----------------------------------------------------------------------------
(* Claims about categorize_data and create_excel_report (specification SpecCat) *)

Categorized == pc \in {"categorized", "recategorized", "counted", "reported"}

\* the places (bucket, position) of the categorization result
AllPlaces == UNION {{n} \X DOMAIN categorized[n] : n \in DOMAIN categorized}

\* C6: categorize_data places each record in exactly one bucket, a declared
\* category or Main, so the bucket sizes sum to the number of records; running
\* it again on the same list leaves every bucket's membership as it was.
C6_PartitionAndRerun ==
    /\ [](Categorized =>
            /\ DOMAIN categorized = CategoryNames \cup {MAIN}
            /\ \A k \in DOMAIN metadata_list :
                   Cardinality({pl \in AllPlaces : categorized[pl[1]][pl[2]] = metadata_list[k]}) = 1
            /\ Cardinality(AllPlaces) = Len(metadata_list))
    /\ [][pc' = "recategorized" => categorized' = categorized]_vars

STR_Team == <<"T", "e", "a", "m">>
STR_TeamMembers == <<"T", "e", "a", "m", " ", "M", "e", "m", "b", "e", "r", "s">>
PAT_Team == <<"/", "t", "e", "a", "m", "/">>
PAT_TeamMembers == <<"/", "t", "e", "a", "m", "-", "m", "e", "m", "b", "e", "r", "s", "/">>

\* two records in two different buckets, categorized a second time
C6_Witness ==
    /\ pc = "recategorized"
    /\ Len(metadata_list) = 2
    /\ Len(categorized[MAIN]) = 1
    /\ Len(categorized[STR_Team]) = 1

\* the declared categories whose pattern is a substring of the path of url
Matching(url) == {c \in DOMAIN CATEGORIES : Contains(UrlPath(url), CATEGORIES[c].pattern)}

InBucket(data, name) == \E j \in DOMAIN categorized[name] : categorized[name][j] = data

\* C7: a record whose URL path contains category patterns lies in the bucket
\* of a longest one of them, whatever their declared order and their places
\* in the path; a path containing both "/team-members/" and "/team/" never
\* goes to Team, and to Team Members when no other pattern as long is in it;
\* a path containing no pattern goes to Main.
C7_LongestPatternWins ==
    Categorized =>
        \A k \in DOMAIN metadata_list :
            LET data == metadata_list[k]
                path == UrlPath(data["Original URL"])
                hits == Matching(data["Original URL"])
            IN  /\ hits = {} => InBucket(data, MAIN)
                /\ hits # {} =>
                      \E c \in hits :
                          /\ InBucket(data, CATEGORIES[c].name)
                          /\ \A d \in hits : Len(CATEGORIES[d].pattern) <= Len(CATEGORIES[c].pattern)
                /\ (Contains(path, PAT_Team) /\ Contains(path, PAT_TeamMembers)) =>
                      /\ ~InBucket(data, STR_Team)
                      /\ (\A d \in hits : CATEGORIES[d].pattern # PAT_TeamMembers
                              => Len(CATEGORIES[d].pattern) < Len(PAT_TeamMembers))
                            => InBucket(data, STR_TeamMembers)

\* "/team/team-members/" and "/team-members/team/" both under Team Members
C7_Witness ==
    /\ pc = "categorized"
    /\ Len(categorized[STR_TeamMembers]) = 2
    /\ \A j \in 1..2 :
          LET path == UrlPath(categorized[STR_TeamMembers][j]["Original URL"])
          IN  Contains(path, PAT_Team) /\ Contains(path, PAT_TeamMembers)

SheetsTitled(title) == {k \in DOMAIN workbook : workbook[k].title = title}
NonEmptyBuckets == {n \in DOMAIN categorized : categorized[n] # <<>>}

\* C9: create_excel_report emits exactly one sheet for each non-empty bucket
\* and none for an empty one, each sheet with one header row and one row per
\* record of its bucket; when every bucket is empty it emits the single
\* informational sheet.
C9_SheetsMatchBuckets ==
    pc = "reported" =>
        /\ \A n \in DOMAIN categorized :
              IF categorized[n] # <<>>
              THEN /\ Cardinality(SheetsTitled(n)) = 1
                   /\ \A k \in SheetsTitled(n) :
                          /\ Len(workbook[k].rows) = Len(categorized[n]) + 1
                          /\ workbook[k].rows[1] = columns_order
                          /\ \A j \in DOMAIN categorized[n] :
                                 workbook[k].rows[j + 1][1] = categorized[n][j]["Original URL"]
              ELSE SheetsTitled(n) = {}
        /\ IF NonEmptyBuckets = {}
           THEN workbook = <<[title |-> STR_Info, rows |-> <<(<<STR_NoUrls>>)>>]>>
           ELSE Len(workbook) = Cardinality(NonEmptyBuckets)

\* a Main sheet of two rows followed by a Team sheet of two rows
C9_Witness ==
    /\ pc = "reported"
    /\ Len(workbook) = 2
    /\ workbook[1].title = MAIN /\ Len(workbook[1].rows) = 2
    /\ workbook[2].title = STR_Team /\ Len(workbook[2].rows) = 2

----------------------------------------------------------------------------
(* Claim about extract_metadata (specification SpecExtract) *)

\* s.split("\n")
RECURSIVE SplitLines(_)
SplitLines(s) ==
    LET i == FirstIn(s, {"\n"})
    IN  IF i > Len(s) THEN <<s>>
        ELSE <<SubSeq(s, 1, i - 1)>> \o SplitLines(SubSeq(s, i + 1, Len(s)))

\* the k-th smallest element of a set of positions
Kth(I, k) == CHOOSE i \in I : Cardinality({j \in I : j < i}) = k - 1

\* a field rendered from the occurrences at positions I of the page: empty for
\* none, the trimmed value for one, and for N >= 2 a first line that is the
\* marker with N in it, then N lines "k. value" in document order
RendersOccurrences(field, I, mark) ==
    LET N == Cardinality(I) IN
    /\ N = 0 => field = <<>>
    /\ N = 1 => field = Strip(soup[Kth(I, 1)].text)
    /\ N >= 2 =>
          LET lines == SplitLines(field) IN
          /\ Len(lines) = N + 1
          /\ lines[1] = mark \o IntToStr(N) \o <<")">>
          /\ \A k \in 1..N :
                 lines[k + 1] = IntToStr(k) \o <<".", " ">> \o Strip(soup[Kth(I, k)].text)

Positions(Is(_)) == {i \in DOMAIN soup : Is(soup[i])}
CountedPositions(Is(_)) == {i \in Positions(Is) : Strip(soup[i].text) # <<>>}

\* C8 as stated: each of the title, description, H1 and canonical fields is
\* rendered from all N raw occurrences of its tag, blank ones included.
C8_RawOccurrences ==
    pc = "extracted" =>
        /\ RendersOccurrences(extracted["Meta Title"], Positions(IsHeadTitle), TITLES_MARK)
        /\ RendersOccurrences(extracted["Meta Description"], Positions(IsDescTag), DESCS_MARK)
        /\ RendersOccurrences(extracted["H1"], Positions(IsH1), H1S_MARK)
        /\ RendersOccurrences(extracted["Canonical URL"], Positions(IsCanonicalTag), CANONICALS_MARK)

\* C8, amended: each field is rendered from the N occurrences of its tag that
\* are not blank once trimmed (for the title the <title> tags inside <head>,
\* for the description the <meta> tags named description, Description or
\* DESCRIPTION): a marker containing N and N numbered entries in document order
\* for N >= 2, the trimmed value alone for N = 1, empty for N = 0.
C8_NonBlankOccurrences ==
    pc = "extracted" =>
        /\ RendersOccurrences(extracted["Meta Title"], CountedPositions(IsHeadTitle), TITLES_MARK)
        /\ RendersOccurrences(extracted["Meta Description"], CountedPositions(IsDescTag), DESCS_MARK)
        /\ RendersOccurrences(extracted["H1"], CountedPositions(IsH1), H1S_MARK)
        /\ RendersOccurrences(extracted["Canonical URL"], CountedPositions(IsCanonicalTag), CANONICALS_MARK)

\* a page with the h1 tags "Home", an empty one and " Welcome "
C8_Witness ==
    /\ pc = "extracted"
    /\ soup = <<Tag("h1", "body", "", STR_Home), Tag("h1", "body", "", <<>>),
                Tag("h1", "body", "", STR_PaddedWelcome)>>
    /\ extracted["H1"] = <<"U+26A0", "U+FE0F", " ", "M", "U", "L", "T", "I", "P", "L", "E", " ", "H", "1", " ", "T", "A", "G", "S", " ", "(", "2", ")", "\n", "1", ".", " ", "H", "o", "m", "e", "\n", "2", ".", " ", "W", "e", "l", "c", "o", "m", "e">>

----------------------------------------------------------------------------
(* Claim about the counters (specification SpecStats) *)

NumberOf(Test(_)) == Cardinality({k \in DOMAIN metadata_list : Test(metadata_list[k])})
StartsWith(s, p) == Len(s) >= Len(p) /\ SubSeq(s, 1, Len(p)) = p
StatusIsError(item) == item["Status Code"] = PyStr(STR_Error)
TitleMarked(item) == StartsWith(item["Meta Title"], TITLES_MARK)
H1Marked(item) == StartsWith(item["H1"], H1S_MARK)

\* C10: healthy = total - errors - (duplicateTitles + duplicateH1s) and
\* warnings = duplicateTitles + duplicateH1s + longTitles + shortDescriptions,
\* errors being the number of records with statusCode = Error; when every
\* record is an Error record, healthy = 0 and errors = total.
C10_HealthyAndWarnings ==
    pc = "done" =>
        LET total == Len(metadata_list)
            errors == NumberOf(StatusIsError)
            duplicateTitles == NumberOf(TitleMarked)
            duplicateH1s == NumberOf(H1Marked)
        IN  /\ stats.processed = total
            /\ stats.errors = errors
            /\ stats.healthy = total - errors - (duplicateTitles + duplicateH1s)
            /\ stats.warnings = duplicateTitles + duplicateH1s
                                + NumberOf(HasLongTitle) + NumberOf(HasShortDescription)
            /\ errors = total => stats.healthy = 0 /\ stats.errors = total

\* three records, every one of them an Error record
C10_Witness ==
    /\ pc = "done"
    /\ Len(metadata_list) = 3
    /\ \A k \in 1..3 : StatusIsError(metadata_list[k])
    /\ stats.healthy = 0 /\ stats.errors = 3

\* C11: the reported healthy count is a count of records, 0 <= healthy <=
\* processed, also when one record carries both a duplicate-title marker and a
\* duplicate-H1 marker.
C11_HealthyIsACount ==
    pc = "done" => 0 <= stats.healthy /\ stats.healthy <= stats.processed

====
